---- MODULE Spec2Model ----
(***************************************************************************)
(* Model of the redis-locking crate (src/src/lib.rs): MultiResourceLock,   *)
(* its polling acquire loop, the MultiResourceGuard and its deferred       *)
(* release, against a coordination store that runs the two atomic          *)
(* procedures acquire_lock and release_lock (functions.lua).               *)
(*                                                                         *)
(* Time is counted in milliseconds and kept as clocks: a lock record holds *)
(* the time it has left (expires_at - now), a call of acquire the time     *)
(* since it began (now.elapsed()) and the time its sleep has left.  Every  *)
(* Duration of the client API is a whole number of milliseconds.  A round  *)
(* trip to the store is one step: it takes no time of its own.             *)
(***************************************************************************)
EXTENDS Integers, Sequences, FiniteSets, TLC

\* ------------------------------------------------------------------ bounds
\* Uuids drawn in one behaviour of Spec, SpecLive and SpecAny.
MaxIds == 3
\* Uuids drawn in one behaviour of SpecPrompt.
MaxPromptIds == 3
\* Uuids drawn in one behaviour of SpecTransfer.
MaxTransferIds == 3

\* Uuids drawn in one behaviour of SpecDup.
MaxDupIds == 2

\* conn.set("account1", 1000), and the same for account2 and account3.
InitialBalance == 1000
\* let amount = 500.
Amount == 500

\* ------------------------------------------------------------- the domain
Callers == {"p1", "p2"}
Resources == {"account1", "account2", "account3"}

\* The resource lists a caller passes (a slice of Strings) and the expirations,
\* in milliseconds; AnyResourceLists and AnyExpirations add the degenerate
\* inputs, the empty slice and Duration::ZERO.
ResourceLists ==
    { <<"account1", "account2">>, <<"account2", "account3">>, <<"account3">> }
Expirations == {1}
AnyResourceLists == ResourceLists \cup {<<>>}
\* Slices that name a resource more than once.
DupLists ==
    { <<"account1", "account1", "account2">>, <<"account2", "account3", "account2">>,
      <<"account3", "account3">> }
AnyExpirations == Expirations \cup {0}
Timeouts == {1}
Sleeps == {1}

Polling == {"acquire", "lock"}
Guarded == {"try_lock", "lock"}
Ops == {"try_acquire", "acquire", "try_lock", "lock"}

\* The API each caller uses: p1 the raw lock ids, p2 the guards.
CallerOps(c) == IF c = "p1" THEN {"try_acquire", "acquire"} ELSE {"try_lock", "lock"}

Range(s) == {s[i] : i \in 1..Len(s)}
Min(a, b) == IF a < b THEN a ELSE b
Max(a, b) == IF a > b THEN a ELSE b

VARIABLES
    loaded,   \* setup has loaded the function library into the store
    link,     \* "up" or "down": whether the store can be reached
    store,    \* the store's lock records: [resource, lock_id, pttl]
    nextId,   \* the source of fresh Uuids
    fcalls,   \* how many FCALL acquire_lock commands the clients have sent
    pc,       \* each caller's position: "idle" or, inside acquire, "sleep"
    req,      \* each caller's call of acquire / lock in progress
    result,   \* what each caller's last call returned
    grant,    \* the grant each caller holds (lock_id 0: none)
    tasks,    \* lock ids whose deferred release (spawn_blocking) is pending
    accounts, \* the balance kept in the store under each account key
    transfer, \* each caller's place and locals in the transfer it runs
    overran   \* some transfer touched a balance after its lock had expired

locking == <<loaded, link, store, nextId, fcalls, pc, req, result, grant, tasks>>
xfer == <<accounts, transfer, overran>>
vars == <<locking, xfer>>

NoReq == [op |-> "none", resources |-> <<>>, expiration |-> 0, timeout |-> 0,
          sleep |-> 0, elapsed |-> 0, wait |-> 0]
NoGrant == [lock_id |-> 0, resources |-> {}, left |-> 0, guard |-> FALSE]
Res(o, kind, n) == [op |-> o, kind |-> kind, value |-> n]
NoResult == Res("none", "none", 0)

\* ------------------------------------------- the store's atomic procedures
\* A record is expired once now > expires_at: when it has less than no time left.
Unexpired(rec) == rec.pttl >= 0

\* Step 2 of the acquire procedure: some requested resource has an unexpired
\* record under another lock_id.
Conflict(S, lock_id, rs) ==
    \E rec \in S : rec.resource \in rs /\ Unexpired(rec) /\ rec.lock_id # lock_id

\* acquire_lock(lock_id, ttl_ms, resources...) as one indivisible operation:
\* on a conflict nothing, else a record expiring at now + ttl_ms per resource.
acquire_lock(S, args) ==
    LET lock_id == args[1]
        ttl_ms == args[2]
        rs == Range(SubSeq(args, 3, Len(args)))
    IN
    IF Conflict(S, lock_id, rs)
    THEN [reply |-> 0, store |-> S]
    ELSE [reply |-> lock_id,
          store |-> {rec \in S : rec.resource \notin rs} \cup
                    {[resource |-> r, lock_id |-> lock_id, pttl |-> ttl_ms] : r \in rs}]

\* release_lock(lock_id): deletes every record under lock_id, returns the count.
release_lock(S, lock_id) ==
    [reply |-> Cardinality({rec \in S : rec.lock_id = lock_id}),
     store |-> {rec \in S : rec.lock_id # lock_id}]

\* Passive expiry as a millisecond passes: the records that are left.
Expire(S) ==
    {[rec EXCEPT !.pttl = @ - 1] : rec \in {x \in S : x.pttl >= 1}}

\* ------------------------------------------------------------- the client
\* expiration.as_secs() where the store expects milliseconds.
as_secs(d) == d \div 1000

\* A lock_id kept from one attempt to the next: every second attempt uses the
\* lock_id of the attempt before it.
Uuid_kept(n) == IF n % 2 = 0 THEN n - 1 ELSE n

\* A lock_id that is the same on every call.
Uuid_nil(n) == 1

\* Uuid::new_v4(): a token no earlier call has produced.
Uuid_new_v4(n) == n

\* expiration.as_millis() of a whole-millisecond Duration.
as_millis(d) == d

\* The arguments with the first of the resources alone.
ArgsFirstOnly(lock_id, ttl_ms, resources) == <<lock_id, ttl_ms>> \o SubSeq(resources, 1, 1)

\* The arguments without the first of the resources.
ArgsSkipFirst(lock_id, ttl_ms, resources) == <<lock_id, ttl_ms>> \o Tail(resources)

\* The arguments without the resources.
ArgsWithoutResources(lock_id, ttl_ms, resources) == <<lock_id, ttl_ms>>

\* The arguments of FCALL acquire_lock: vec![lock_id, ttl], extended by the
\* resources.
Args(lock_id, ttl_ms, resources) == <<lock_id, ttl_ms>> \o resources

\* A loop that never looks at the time.
TimedOutNever(elapsed, timeout) == FALSE

\* A loop test that gives the call a millisecond more than its timeout.
TimedOutLate(elapsed, timeout) == elapsed > timeout + 1

\* acquire's loop test: now.elapsed() > timeout.
TimedOut(elapsed, timeout) == elapsed > timeout

\* A caller that has run no transfer: guard is the lock_id of the guard the
\* caller's last transfer ran under.
NoTransfer == [guard |-> 0, stage |-> "done", from_balance |-> 0, to_balance |-> 0]

Init ==
    /\ loaded = FALSE
    /\ link = "up"
    /\ store = {}
    /\ nextId = 1
    /\ fcalls = 0
    /\ pc = [c \in Callers |-> "idle"]
    /\ req = [c \in Callers |-> NoReq]
    /\ result = [c \in Callers |-> NoResult]
    /\ grant = [c \in Callers |-> NoGrant]
    /\ tasks = {}
    /\ accounts = [r \in Resources |-> InitialBalance]
    /\ transfer = [c \in Callers |-> NoTransfer]
    /\ overran = FALSE

\* setup(): FUNCTION LOAD REPLACE of the library.
Setup ==
    /\ link = "up"
    /\ ~loaded
    /\ loaded' = TRUE
    /\ UNCHANGED <<link, store, nextId, fcalls, pc, req, result, grant, tasks>>
    /\ UNCHANGED xfer

\* now.elapsed() of a call is followed until it exceeds timeout + sleep, beyond
\* which no turn of the loop tells one value from another.
MaxElapsed(q) == q.timeout + q.sleep + 1

\* A millisecond passes: records and grants have one less left, a call of
\* acquire has run one more, a sleep has one less to go.
Tick ==
    /\ store' = Expire(store)
    /\ grant' = [c \in Callers |->
                    IF grant[c] = NoGrant THEN NoGrant
                    ELSE [grant[c] EXCEPT !.left = Max(@ - 1, -1)]]
    /\ req' = [c \in Callers |->
                    IF pc[c] = "idle" THEN req[c]
                    ELSE [req[c] EXCEPT !.elapsed = Min(@ + 1, MaxElapsed(req[c])),
                                        !.wait = Max(@ - 1, 0)]]
    /\ UNCHANGED <<loaded, link, nextId, fcalls, pc, result, tasks>>
    /\ UNCHANGED xfer

LinkDown ==
    /\ link = "up"
    /\ link' = "down"
    /\ UNCHANGED <<loaded, store, nextId, fcalls, pc, req, result, grant, tasks>>
    /\ UNCHANGED xfer

LinkUp ==
    /\ link = "down"
    /\ link' = "up"
    /\ UNCHANGED <<loaded, store, nextId, fcalls, pc, req, result, grant, tasks>>
    /\ UNCHANGED xfer

\* What the transport does to one round trip: "connect" (no connection, nothing
\* is sent), "reply" (the command ran, its reply never arrived), "function" (the
\* library is not loaded: an error reply), "none".
Faults(l, ld) ==
    IF l = "down" THEN {"connect", "reply"}
    ELSE IF ~ld THEN {"function"} ELSE {"none"}

NewReq(o, rs, e, t, s) ==
    [op |-> o, resources |-> rs, expiration |-> e, timeout |-> t, sleep |-> s,
     elapsed |-> 0, wait |-> 0]

\* try_acquire with the reply read as a String, where no reply is an error.
TryAcquireResultNilErr(o, f, reply) ==
    IF f # "none" \/ reply = 0 THEN Res(o, "Err", 0) ELSE Res(o, "Some", reply)

\* What try_acquire returns for a round trip that met fault f and, without a
\* fault, the store's reply: the `?` on the connection and on the query turn a
\* transport failure into Err, the reply is passed through.
TryAcquireResult(o, f, reply) ==
    IF f # "none" THEN Res(o, "Err", 0)
    ELSE IF reply # 0 THEN Res(o, "Some", reply) ELSE Res(o, "None", 0)

\* A loop that sleeps after every attempt, a granted one included.
AfterAttemptSleepAlways(o, r) ==
    IF o \in Polling /\ r.kind \in {"None", "Some"} THEN "sleep" ELSE "idle"

\* A loop that treats an error like a refusal and tries again.
AfterAttemptRetryErr(o, r) ==
    IF o \in Polling /\ r.kind \in {"None", "Err"} THEN "sleep" ELSE "idle"

\* Where the caller goes with try_acquire's result r: acquire and lock sleep on
\* Ok(None) and return anything else; try_acquire and try_lock return.
AfterAttempt(o, r) ==
    IF o \in Polling /\ r.kind = "None" THEN "sleep" ELSE "idle"

\* The grant a caller holds after r, for the expiration it asked for; try_lock
\* and lock wrap it in a guard.
GrantOf(o, r, rs, ttl) ==
    [lock_id |-> r.value, resources |-> rs, left |-> ttl, guard |-> o \in Guarded]

\* One try_acquire of request q by caller c: connection, Uuid, FCALL
\* acquire_lock, and what the caller (try_acquire, try_lock, or the loop of
\* acquire and lock) does with the result.
try_acquire(c, q) ==
    /\ \E f \in Faults(link, loaded) :
        LET lock_id == Uuid_new_v4(nextId)
            sent == f # "connect"
            ran == f \in {"none", "reply"} /\ loaded
            out == acquire_lock(store, Args(lock_id, as_millis(q.expiration), q.resources))
            r == TryAcquireResult(q.op, f, IF ran THEN out.reply ELSE 0)
            to == AfterAttempt(q.op, r)
        IN  /\ nextId' = IF sent THEN nextId + 1 ELSE nextId
            /\ fcalls' = IF sent THEN fcalls + 1 ELSE fcalls
            /\ result' = [result EXCEPT ![c] = IF to = "idle" THEN r ELSE NoResult]
            /\ pc' = [pc EXCEPT ![c] = to]
            /\ req' = [req EXCEPT ![c] =
                          IF to = "idle" THEN NoReq ELSE [q EXCEPT !.wait = q.sleep]]
            /\ grant' = [grant EXCEPT ![c] =
                          IF r.kind = "Some"
                          THEN GrantOf(q.op, r, Range(q.resources), q.expiration)
                          ELSE @]
            /\ store' = IF ran THEN out.store ELSE store

\* One turn of acquire's loop for request q:
\* if now.elapsed() > timeout { return Ok(None) }, else a try_acquire.
acquire_loop(c, q) ==
    IF TimedOut(q.elapsed, q.timeout)
    THEN /\ pc' = [pc EXCEPT ![c] = "idle"]
         /\ req' = [req EXCEPT ![c] = NoReq]
         /\ result' = [result EXCEPT ![c] = Res(q.op, "None", 0)]
         /\ UNCHANGED <<store, nextId, fcalls, grant>>
    ELSE try_acquire(c, q)

\* try_acquire / try_lock is called with resources rs and expiration e.
TryAcquire(c, o, rs, e) ==
    /\ pc[c] = "idle"
    /\ grant[c] = NoGrant
    /\ o \notin Polling
    /\ try_acquire(c, NewReq(o, rs, e, 0, 0))
    /\ UNCHANGED <<loaded, link, tasks>>
    /\ UNCHANGED xfer

\* acquire / lock is called: let now = Instant::now(), and the first turn of
\* the loop.
Acquire(c, o, rs, e, t, s) ==
    /\ pc[c] = "idle"
    /\ grant[c] = NoGrant
    /\ o \in Polling
    /\ acquire_loop(c, NewReq(o, rs, e, t, s))
    /\ UNCHANGED <<loaded, link, tasks>>
    /\ UNCHANGED xfer

\* tokio::time::sleep(sleep) is over: the next turn of the loop, which finds
\* the timeout not passed and tries again.
AcquireRetry(c) ==
    /\ pc[c] = "sleep"
    /\ req[c].wait = 0
    /\ ~TimedOut(req[c].elapsed, req[c].timeout)
    /\ acquire_loop(c, req[c])
    /\ UNCHANGED <<loaded, link, tasks>>
    /\ UNCHANGED xfer

\* The next turn of the loop, which finds the timeout passed.
AcquireTimeout(c) ==
    /\ pc[c] = "sleep"
    /\ req[c].wait = 0
    /\ TimedOut(req[c].elapsed, req[c].timeout)
    /\ acquire_loop(c, req[c])
    /\ UNCHANGED <<loaded, link, tasks>>
    /\ UNCHANGED xfer

\* release that drops the store's count from its reply.
ReleaseResultNoCount(f, count) ==
    IF f # "none" THEN Res("release", "Err", 0) ELSE Res("release", "Ok", 0)

\* release that reports an error when nothing was held under lock_id.
ReleaseResultErrOnZero(f, count) ==
    IF f # "none" \/ count = 0 THEN Res("release", "Err", 0)
    ELSE Res("release", "Ok", count)

\* What release returns: Err on a transport failure, else the store's count.
ReleaseResult(f, count) ==
    IF f # "none" THEN Res("release", "Err", 0) ELSE Res("release", "Ok", count)

\* The ids the store has no record of: never granted, released, or expired.
UnknownIds == {id \in 0..nextId : \A rec \in store : rec.lock_id # id}

\* release(lock_id), called by a caller that keeps raw lock ids, with the
\* lock_id it was given (still held or expired since) or with an id the store
\* has no record of.
Release(c, lock_id) ==
    /\ pc[c] = "idle"
    /\ CallerOps(c) \cap Guarded = {}
    /\ lock_id \in {grant[c].lock_id} \cup UnknownIds
    /\ \E f \in Faults(link, loaded) :
        LET ran == f \in {"none", "reply"} /\ loaded
            out == release_lock(store, lock_id)
        IN  /\ result' = [result EXCEPT ![c] = ReleaseResult(f, out.reply)]
            /\ store' = IF ran THEN out.store ELSE store
    /\ grant' = [grant EXCEPT ![c] = IF lock_id = @.lock_id THEN NoGrant ELSE @]
    /\ UNCHANGED <<loaded, link, nextId, fcalls, pc, req, tasks>>
    /\ UNCHANGED xfer

\* A guard that hands its background task an id of nobody's.
DropLockIdNil(g) == 0

\* The lock_id a dropped guard hands to its background task.
DropLockId(g) == g.lock_id

\* Drop for MultiResourceGuard: spawn_blocking a release of the guard's lock_id.
Drop(c) ==
    /\ pc[c] = "idle"
    /\ grant[c].guard
    /\ tasks' = tasks \cup {DropLockId(grant[c])}
    /\ grant' = [grant EXCEPT ![c] = NoGrant]
    /\ UNCHANGED <<loaded, link, store, nextId, fcalls, pc, req, result>>
    /\ UNCHANGED xfer

\* A background task whose failure is handed back to the caller that dropped
\* the guard.
ReleaseTaskJoined(lock_id) ==
    /\ lock_id \in tasks
    /\ tasks' = tasks \ {lock_id}
    /\ \E f \in Faults(link, loaded) :
        LET ran == f \in {"none", "reply"} /\ loaded
        IN  /\ store' = IF ran THEN release_lock(store, lock_id).store ELSE store
            /\ result' = [c \in Callers |->
                            IF f # "none" /\ result[c].value = lock_id
                            THEN Res("release", "Err", 0) ELSE result[c]]
    /\ UNCHANGED <<loaded, link, nextId, fcalls, pc, req, grant>>
    /\ UNCHANGED xfer

\* The background task runs rt.block_on(lock.release(&lock_id)).unwrap(): an Err
\* panics on the blocking thread, which nobody joins.
ReleaseTask(lock_id) ==
    /\ lock_id \in tasks
    /\ tasks' = tasks \ {lock_id}
    /\ \E f \in Faults(link, loaded) :
        LET ran == f \in {"none", "reply"} /\ loaded
        IN  store' = IF ran THEN release_lock(store, lock_id).store ELSE store
    /\ UNCHANGED <<loaded, link, nextId, fcalls, pc, req, result, grant>>
    /\ UNCHANGED xfer

\* Fewer than n Uuids were drawn.
IdsLeft(n) == nextId <= n

Client(c) ==
    \/ /\ IdsLeft(MaxIds)
       /\ \E o \in CallerOps(c), rs \in ResourceLists, e \in Expirations :
             TryAcquire(c, o, rs, e)
    \/ /\ IdsLeft(MaxIds)
       /\ \E o \in CallerOps(c), rs \in ResourceLists, e \in Expirations,
             t \in Timeouts, s \in Sleeps :
             Acquire(c, o, rs, e, t, s)
    \/ IdsLeft(MaxIds) /\ AcquireRetry(c)
    \/ AcquireTimeout(c)
    \/ \E id \in 0..nextId : Release(c, id)
    \/ Drop(c)

Next ==
    \/ Setup
    \/ Tick
    \/ LinkDown
    \/ LinkUp
    \/ \E c \in Callers : Client(c)
    \/ \E id \in tasks : ReleaseTask(id)

Spec == Init /\ [][Next]_vars

\* ------------------------------------------------------ scheduled releases
\* The same callers with the store always reachable and a runtime that runs
\* every task spawned by a dropped guard. Nothing obliges time to pass.
NextLive ==
    \/ Setup
    \/ Tick
    \/ \E c \in Callers : Client(c)
    \/ \E id \in tasks : ReleaseTask(id)

SpecLive ==
    Init /\ [][NextLive]_vars /\ \A id \in 0..MaxIds : WF_vars(ReleaseTask(id))

\* ------------------------------------------------------- degenerate inputs
\* The same callers when they also pass an empty resource list or a zero
\* expiration, with the store always reachable.
ClientAny(c) ==
    \/ /\ IdsLeft(MaxIds)
       /\ \E o \in CallerOps(c), rs \in AnyResourceLists, e \in AnyExpirations :
             TryAcquire(c, o, rs, e)
    \/ /\ IdsLeft(MaxIds)
       /\ \E o \in CallerOps(c), rs \in AnyResourceLists, e \in AnyExpirations,
             t \in Timeouts, s \in Sleeps :
             Acquire(c, o, rs, e, t, s)
    \/ IdsLeft(MaxIds) /\ AcquireRetry(c)
    \/ AcquireTimeout(c)
    \/ Release(c, grant[c].lock_id)
    \/ Drop(c)

NextAny ==
    \/ Setup
    \/ Tick
    \/ \E c \in Callers : ClientAny(c)
    \/ \E id \in tasks : ReleaseTask(id)

SpecAny == Init /\ [][NextAny]_vars

\* ---------------------------------------------------------------- transfers
\* Each caller repeatedly runs the transfer of the crate's example: lock the two
\* accounts, read and rewrite their balances, let the lock go. p1 moves Amount
\* from account1 to account2, p2 from account2 to account3.
From(c) == IF c = "p1" THEN "account1" ELSE "account2"
To(c) == IF c = "p1" THEN "account2" ELSE "account3"

\* A transfer that locks the sender's account alone.
TransferResourcesFromOnly(c) == <<From(c)>>

\* let resources = vec![String::from(from), String::from(to)].
TransferResources(c) == <<From(c), To(c)>>

\* The caller is past its lock call, with a grant its transfer has not yet run
\* under / has run under to the end.
Locked(c) ==
    pc[c] = "idle" /\ grant[c] # NoGrant /\ transfer[c].guard # grant[c].lock_id
Finished(c) ==
    pc[c] = "idle" /\ grant[c] # NoGrant /\ transfer[c].guard = grant[c].lock_id
                  /\ transfer[c].stage = "done"
At(c, stage) ==
    pc[c] = "idle" /\ grant[c] # NoGrant /\ transfer[c].guard = grant[c].lock_id
                  /\ transfer[c].stage = stage

\* The step touches a balance: remember whether the caller's lock had expired.
Touch(c) == overran' = (overran \/ grant[c].left < 0)

\* let from_balance: i64 = conn.get("account1"); if from_balance >= amount.
GetFrom(c) ==
    /\ Locked(c)
    /\ LET from_balance == accounts[From(c)]
       IN  transfer' = [transfer EXCEPT ![c] =
                          [guard |-> grant[c].lock_id,
                           stage |-> IF from_balance >= Amount THEN "get_to" ELSE "done",
                           from_balance |-> from_balance,
                           to_balance |-> 0]]
    /\ Touch(c)
    /\ UNCHANGED <<locking, accounts>>

\* let to_balance: i64 = conn.get(to).
GetTo(c) ==
    /\ At(c, "get_to")
    /\ transfer' = [transfer EXCEPT ![c].to_balance = accounts[To(c)],
                                    ![c].stage = "set_from"]
    /\ Touch(c)
    /\ UNCHANGED <<locking, accounts>>

\* conn.set(from, from_balance.checked_sub(amount)).
SetFrom(c) ==
    /\ At(c, "set_from")
    /\ accounts' = [accounts EXCEPT ![From(c)] = transfer[c].from_balance - Amount]
    /\ transfer' = [transfer EXCEPT ![c].stage = "set_to"]
    /\ Touch(c)
    /\ UNCHANGED locking

\* conn.set(to, to_balance.checked_add(amount)).
SetTo(c) ==
    /\ At(c, "set_to")
    /\ accounts' = [accounts EXCEPT ![To(c)] = transfer[c].to_balance + Amount]
    /\ transfer' = [transfer EXCEPT ![c].stage = "done"]
    /\ Touch(c)
    /\ UNCHANGED locking

TransferCaller(c) ==
    \/ /\ IdsLeft(MaxTransferIds)
       /\ \E o \in CallerOps(c), e \in Expirations, t \in Timeouts, s \in Sleeps :
             Acquire(c, o, TransferResources(c), e, t, s)
    \/ IdsLeft(MaxTransferIds) /\ AcquireRetry(c)
    \/ AcquireTimeout(c)
    \/ GetFrom(c)
    \/ GetTo(c)
    \/ SetFrom(c)
    \/ SetTo(c)
    \/ Finished(c) /\ Release(c, grant[c].lock_id)
    \/ Finished(c) /\ Drop(c)

NextTransfer ==
    \/ Setup
    \/ Tick
    \/ \E c \in Callers : TransferCaller(c)
    \/ \E id \in tasks : ReleaseTask(id)

SpecTransfer == Init /\ [][NextTransfer]_vars

\* ------------------------------------------------------ repeated resources
\* The same callers when they pass slices that name a resource more than once,
\* with the store always reachable.
ClientDup(c) ==
    \/ /\ IdsLeft(MaxDupIds)
       /\ \E o \in CallerOps(c), rs \in DupLists, e \in Expirations :
             TryAcquire(c, o, rs, e)
    \/ /\ IdsLeft(MaxDupIds)
       /\ \E o \in CallerOps(c), rs \in DupLists, e \in Expirations,
             t \in Timeouts, s \in Sleeps :
             Acquire(c, o, rs, e, t, s)
    \/ AcquireTimeout(c)
    \/ Release(c, grant[c].lock_id)
    \/ Drop(c)

NextDup ==
    \/ Setup
    \/ Tick
    \/ \E c \in Callers : ClientDup(c)
    \/ \E id \in tasks : ReleaseTask(id)

SpecDup == Init /\ [][NextDup]_vars

\* ----------------------------------------------------------- prompt timing
\* The same system when nothing but the sleeps takes time: a caller whose sleep
\* is over takes its turn before the clock moves on.
Prompt == \A c \in Callers : pc[c] = "sleep" => req[c].wait > 0

TickPrompt == Prompt /\ Tick

PromptTimeouts == {0, 1}
PromptSleeps == {1, 2}

ClientPrompt(c) ==
    \/ /\ IdsLeft(MaxPromptIds)
       /\ \E o \in CallerOps(c), rs \in ResourceLists, e \in Expirations,
             t \in PromptTimeouts, s \in PromptSleeps :
             Acquire(c, o, rs, e, t, s)
    \/ IdsLeft(MaxPromptIds) /\ AcquireRetry(c)
    \/ AcquireTimeout(c)
    \/ Release(c, grant[c].lock_id)
    \/ Drop(c)

NextPrompt ==
    \/ Setup
    \/ TickPrompt
    \/ \E c \in Callers : ClientPrompt(c)
    \/ \E id \in tasks : ReleaseTask(id)

SpecPrompt == Init /\ [][NextPrompt]_vars

\* ------------------------------------------------------ concurrent attempts
\* Two callers whose try_acquire / try_lock calls are in flight at the same
\* time: each caller calls once, the store serves the calls one at a time in
\* either order once every caller has sent its own, and time passes and the
\* link fails as before.

\* try_acquire up to its FCALL: the request is on its way to the store.
TryAcquireSend(c, o, rs, e) ==
    /\ pc[c] = "idle"
    /\ result[c] = NoResult
    /\ grant[c] = NoGrant
    /\ o \notin Polling
    /\ pc' = [pc EXCEPT ![c] = "flight"]
    /\ req' = [req EXCEPT ![c] = NewReq(o, rs, e, 0, 0)]
    /\ UNCHANGED <<loaded, link, store, nextId, fcalls, result, grant, tasks>>
    /\ UNCHANGED xfer

\* The store runs the request of c and c reads the reply.
TryAcquireServe(c) ==
    /\ pc[c] = "flight"
    /\ try_acquire(c, req[c])
    /\ UNCHANGED <<loaded, link, tasks>>
    /\ UNCHANGED xfer

\* Caller c has not been answered yet.
Unserved(c) == result[c] = NoResult

\* Every caller has sent its request.
AllSent == \A c \in Callers : pc[c] = "flight" \/ ~Unserved(c)

\* Every caller has its answer.
AllServed == \A c \in Callers : pc[c] = "idle" /\ ~Unserved(c)

ClientRace(c) ==
    \/ \E o \in CallerOps(c), rs \in ResourceLists, e \in Expirations :
          TryAcquireSend(c, o, rs, e)
    \/ AllSent /\ TryAcquireServe(c)
    \/ AllServed /\ Release(c, grant[c].lock_id)
    \/ AllServed /\ Drop(c)

NextRace ==
    \/ Setup
    \/ Tick
    \/ LinkDown
    \/ LinkUp
    \/ \E c \in Callers : ClientRace(c)
    \/ \E id \in tasks : ReleaseTask(id)

SpecRace == Init /\ [][NextRace]_vars

\* ------------------------------------------------------------ polling calls
\* The callers of acquire / lock with the timeouts and poll intervals above,
\* when time passes freely, timers fire, and the runtime gives a woken call
\* its next turn of the loop.
NextPoll ==
    \/ Setup
    \/ Tick
    \/ LinkDown
    \/ LinkUp
    \/ \E c \in Callers : ClientPrompt(c)
    \/ \E id \in tasks : ReleaseTask(id)

SpecPoll ==
    /\ Init
    /\ [][NextPoll]_vars
    /\ WF_vars(Tick)
    /\ \A c \in Callers :
          /\ WF_vars(IdsLeft(MaxPromptIds) /\ AcquireRetry(c))
          /\ WF_vars(AcquireTimeout(c))

\* ------------------------------------------------------------------ claims
\* The grant a caller was given is live: not released, not dropped, and its
\* expiration has not passed.
Live(c) == grant[c] # NoGrant /\ grant[c].left >= 0

\* Caller c's step is an acquisition attempt for the resource list rs.
Attempt(c, rs) ==
    IF pc[c] = "sleep"
    THEN req[c].resources = rs /\ AcquireRetry(c)
    ELSE \/ \E o \in CallerOps(c) \ Polling, e \in Expirations :
               TryAcquire(c, o, rs, e)
         \/ \E o \in CallerOps(c) \cap Polling, e \in Expirations,
               t \in Timeouts, s \in Sleeps :
               Acquire(c, o, rs, e, t, s)

\* C1: mutual exclusion. No resource ever has two unexpired lock records, and no
\* two callers ever hold live grants (acquired by try_acquire, acquire, try_lock
\* or lock, not yet released and not expired) on overlapping resource sets: the
\* second of two overlapping attempts is refused as long as the first grant is
\* live.
C1_MutualExclusion ==
    /\ \A r \in Resources :
          Cardinality({rec \in store : rec.resource = r /\ Unexpired(rec)}) <= 1
    /\ \A c, d \in Callers :
          (c # d /\ Live(c) /\ Live(d)) => grant[c].resources \cap grant[d].resources = {}
    /\ \A c \in Callers :
          Live(c) => \A r \in grant[c].resources :
                        \E rec \in store : rec.resource = r /\ rec.lock_id = grant[c].lock_id

\* A caller holds a live grant while another, polling for an overlapping set,
\* has been refused and sleeps.
C1_Witness ==
    \E c, d \in Callers :
        /\ c # d
        /\ Live(c)
        /\ pc[d] = "sleep"
        /\ Range(req[d].resources) \cap grant[c].resources # {}

\* The round trips of this step reach the store and are answered.
Reachable == link = "up" /\ loaded

\* Some unexpired record stands on a resource of the list rs.
Blocked(rs) == \E rec \in store : rec.resource \in Range(rs) /\ Unexpired(rec)

\* Caller c's step sends an FCALL acquire_lock for the resource list rs.
Sends(c, rs) == fcalls' = fcalls + 1 /\ Attempt(c, rs)

\* The attempt of this step was granted / refused: Some(lock_id) with the grant,
\* or Ok(None) (acquire and lock then sleep before they try again).
Granted(c, rs) ==
    /\ result'[c].kind = "Some"
    /\ pc'[c] = "idle"
    /\ grant'[c].resources = Range(rs)
    /\ \A r \in Range(rs) :
          \E rec \in store' : rec.resource = r /\ rec.lock_id = result'[c].value
Refused(c) ==
    /\ grant'[c] = NoGrant
    /\ store' = store
    /\ \/ pc'[c] = "idle" /\ result'[c].kind = "None"
       \/ pc'[c] = "sleep"

\* C2: blocking depends only on overlap. An attempt that reaches the store is
\* granted exactly when no resource of its list has an unexpired record (of
\* another lock_id), whatever is locked elsewhere, and is refused otherwise: with
\* {account1, account2} held, {account2, account3} is refused and {account3}
\* granted.
C2_OverlapOnly ==
    [][\A c \in Callers, rs \in ResourceLists :
          (Reachable /\ Sends(c, rs)) =>
              IF Blocked(rs) THEN Refused(c) ELSE Granted(c, rs)]_vars

\* Two callers hold live grants on the disjoint sets {account1, account2} and
\* {account3} at once.
C2_Witness ==
    \E c, d \in Callers :
        /\ Live(c) /\ grant[c].resources = {"account1", "account2"}
        /\ Live(d) /\ grant[d].resources = {"account3"}
        /\ \A r \in Resources : \E rec \in store : rec.resource = r

\* The store has no record under lock_id.
Stale(lock_id) == \A rec \in store : rec.lock_id # lock_id

\* The records under other ids than lock_id are what they were.
OthersKept(lock_id) ==
    {rec \in store : rec.lock_id # lock_id} = {rec \in store' : rec.lock_id # lock_id}

C4_ExpiryReclaims ==
    [][\A c, d \in Callers, rs \in ResourceLists :
          (/\ c # d
           /\ Reachable
           /\ grant[c] # NoGrant
           /\ grant[c].resources \cap Range(rs) # {}
           /\ Sends(d, rs)) =>
              /\ grant[c].left >= 0 => Refused(d)
              /\ (/\ grant[c].left < 0
                  /\ \A rec \in store :
                        rec.resource \in Range(rs) => rec.lock_id = grant[c].lock_id)
                    => Granted(d, rs)]_vars

\* A caller still has the lock_id of a grant whose expiration has passed, never
\* released, and the other caller holds a live grant on an overlapping set.
C4_Witness ==
    \E c, d \in Callers :
        /\ c # d
        /\ grant[c] # NoGrant
        /\ grant[c].left < 0
        /\ Live(d)
        /\ grant[c].resources \cap grant[d].resources # {}

\* Caller c was given a guard for lock_id and has dropped it.
Dropped(c, lock_id) ==
    /\ result[c].op \in Guarded
    /\ result[c].kind = "Some"
    /\ result[c].value = lock_id
    /\ grant[c] = NoGrant

\* C5: guard release-on-drop. Once a guard returned by try_lock / lock has been
\* dropped, then, with its background task scheduled and the store reachable,
\* the store eventually has no record under the guard's lock_id, so that every
\* resource of the grant can be acquired by another caller, and this does not
\* depend on time passing.
C5_GuardReleaseOnDrop ==
    \A c \in Callers, id \in 1..MaxIds : Dropped(c, id) ~> Stale(id)

\* The first guard ever granted has been dropped and its release has run, while
\* the other caller, refused by that guard's lock, is still in the sleep after
\* its first attempt, with no time passed since: the lock went before its
\* expiration did.
C5_Witness ==
    \E c, d \in Callers :
        /\ c # d
        /\ Dropped(c, 1)
        /\ tasks = {}
        /\ store = {}
        /\ nextId = 3
        /\ pc[d] = "sleep"
        /\ req[d].elapsed = 0

\* No transfer is in progress: no caller is between the grant of its lock and
\* the release.
Quiescent == \A c \in Callers : grant[c] = NoGrant

Sum == accounts["account1"] + accounts["account2"] + accounts["account3"]

LoopAttempt(c) ==
    IF pc[c] = "sleep"
    THEN AcquireRetry(c)
    ELSE \E o \in CallerOps(c) \cap Polling, rs \in ResourceLists, e \in Expirations,
            t \in Timeouts, s \in Sleeps :
            Acquire(c, o, rs, e, t, s)


\* C7: bounded timeout. When only the sleeps take time, a call of acquire / lock
\* with timeout T and poll interval P that is refused at every attempt returns
\* Ok(None) when more than T and at most T + P have passed since it began.
C7_BoundedTimeout ==
    [][\A c \in Callers :
          AcquireTimeout(c) =>
              /\ result'[c].op \in Polling
              /\ req[c].elapsed >= req[c].timeout
              /\ req[c].elapsed <= req[c].timeout + req[c].sleep
              /\ req[c].elapsed < MaxElapsed(req[c])]_vars

\* A call of acquire or lock has timed out.
C7_Witness ==
    \E c \in Callers :
        pc[c] = "idle" /\ result[c].op \in Polling /\ result[c].kind = "None"

\* C8: transport errors are never retried. A turn of the loop of acquire / lock
\* whose try_acquire meets a transport failure (no connection, or the function
\* library is missing) ends the call with Err in that very step, whatever is
\* left of the timeout: no sleep and no further FCALL follow.
C8_TransportErrorsNotRetried ==
    [][\A c \in Callers :
          (~Reachable /\ LoopAttempt(c)) =>
              /\ pc'[c] = "idle"
              /\ result'[c].kind = "Err"
              /\ result'[c].op \in Polling
              /\ req'[c] = NoReq
              /\ fcalls' <= fcalls + 1]_vars

\* A call of acquire or lock has returned Err.
C8_Witness ==
    \E c \in Callers :
        pc[c] = "idle" /\ result[c].op \in Polling /\ result[c].kind = "Err"

\* C9: contention and timeout are results, not errors. An attempt that reaches
\* the store and finds a conflict gives Ok(None) (try_acquire, try_lock) or a
\* sleep (acquire, lock), a call of acquire / lock whose timeout has passed
\* returns Ok(None), and no attempt that reaches the store returns Err.
C9_ContentionIsNotAnError ==
    [][\A c \in Callers :
          /\ \A rs \in ResourceLists :
                (Reachable /\ Sends(c, rs)) =>
                    /\ result'[c].kind # "Err"
                    /\ Blocked(rs) => Refused(c)
          /\ AcquireTimeout(c) =>
                pc'[c] = "idle" /\ result'[c] = Res(req[c].op, "None", 0)]_vars

\* A try_acquire or try_lock has returned Ok(None) while the other caller holds
\* a live grant.
C9_Witness ==
    \E c, d \in Callers :
        /\ c # d
        /\ pc[c] = "idle"
        /\ result[c].op \in Ops \ Polling
        /\ result[c].kind = "None"
        /\ Live(d)

\* The records the step has written.
Written == store' \ store

\* C12: acquisition is all-or-nothing. An attempt for the list rs that changes
\* any lock record at all had no unexpired record against it and writes, in
\* that one step, one record for each resource of rs and nothing else, all
\* under one lock_id the store had no record of and with the expiration asked
\* for, removing no record; an attempt that meets a conflict changes nothing.
C12_AllOrNothing ==
    [][\A c \in Callers, rs \in ResourceLists :
          (store' # store /\ Attempt(c, rs)) =>
              /\ ~Blocked(rs)
              /\ store \subseteq store'
              /\ \E id \in 1..nextId, e \in Expirations :
                    /\ Stale(id)
                    /\ Written = {[resource |-> r, lock_id |-> id, pttl |-> e] :
                                     r \in Range(rs)}]_vars

\* A caller holds account1 and account2 while the other, refused account2 and
\* account3, sleeps, and account3 has no record.
C12_Witness ==
    \E c, d \in Callers :
        /\ Live(c)
        /\ grant[c].resources = {"account1", "account2"}
        /\ pc[d] = "sleep"
        /\ req[d].resources = <<"account2", "account3">>
        /\ \A rec \in store : rec.resource # "account3"

\* The list s without its repeated elements.
RECURSIVE Dedup(_)
Dedup(s) ==
    IF s = <<>> THEN <<>>
    ELSE LET init == Dedup(SubSeq(s, 1, Len(s) - 1))
             last == s[Len(s)]
         IN  IF last \in Range(init) THEN init ELSE Append(init, last)

C13_ConcurrentAttemptsLinearized ==
    [][\A c, d \in Callers :
          (c # d /\ TryAcquireServe(c) /\ result'[c].kind # "Err"
                 /\ result[d].kind # "Err") =>
              IF Unserved(d)
              THEN Granted(c, req[c].resources)
              ELSE /\ result[d].kind = "Some"
                   /\ Live(d) =>
                         IF grant[d].resources \cap Range(req[c].resources) # {}
                         THEN Refused(c) /\ Live(d)'
                         ELSE Granted(c, req[c].resources)]_vars

\* Both calls were answered: one holds its grant on account1 and account2, the
\* other, which asked for account2 and account3, was refused.
C13_Witness ==
    \E c, d \in Callers :
        /\ AllServed
        /\ Live(c) /\ grant[c].resources = {"account1", "account2"}
        /\ result[c].kind = "Some"
        /\ result[d].kind = "None" /\ grant[d] = NoGrant
        /\ \A rec \in store : rec.resource # "account3"

\* C14: release removes exactly the caller's grant. release(lock_id) of a grant
\* that is still held, with the store reachable, deletes in one step every
\* record under that lock_id and no other record, returns the number of records
\* deleted, which is the number of distinct resources of the grant, and leaves
\* no record on any of those resources, so that each can be acquired at once.
C14_ReleaseRemovesExactlyGrant ==
    [][\A c \in Callers :
          (result'[c].op = "release" /\ Live(c) /\ Reachable
                /\ Release(c, grant[c].lock_id)) =>
              LET mine == {rec \in store : rec.lock_id = grant[c].lock_id}
              IN  /\ {rec.resource : rec \in mine} = grant[c].resources
                  /\ store' = store \ mine
                  /\ result'[c] = Res("release", "Ok", Cardinality(mine))
                  /\ Cardinality(mine) = Cardinality(grant[c].resources)
                  /\ \A rs \in ResourceLists :
                        Range(rs) \subseteq grant[c].resources => ~Blocked(rs)']_vars

\* A grant on account1 and account2 was released with count 2 while the other
\* caller's grant on account3 is live and its record is the only one left.
C14_Witness ==
    \E c, d \in Callers :
        /\ result[c] = Res("release", "Ok", 2) /\ grant[c] = NoGrant
        /\ Live(d) /\ grant[d].resources = {"account3"}
        /\ store # {}
        /\ \A rec \in store : rec.resource = "account3" /\ rec.lock_id = grant[d].lock_id

\* Caller c holds a guard of lock_id that has not been dropped.
Alive(c, lock_id) == grant[c].guard /\ grant[c].lock_id = lock_id

\* C15: every guard triggers exactly one release attempt. A release task for
\* a lock_id is dispatched only by the drop of the guard of that lock_id, every
\* drop of a guard dispatches the task for its lock_id and nothing else and
\* ends the guard, no task for a lock_id is pending or runs while its guard is
\* alive, a task that runs is gone, and once the task of a lock_id has been
\* dispatched and has run, none is ever dispatched for that lock_id again.
C15_OneReleasePerGuard ==
    /\ [][\A id \in 1..MaxIds :
            /\ (id \in tasks' /\ id \notin tasks) => \E c \in Callers : Alive(c, id) /\ Drop(c)
            /\ \A c \in Callers :
                  /\ Alive(c, id) => id \notin tasks /\ ~ReleaseTask(id)
                  /\ (Alive(c, id) /\ Drop(c)) =>
                        /\ tasks' = tasks \cup {id}
                        /\ ~Alive(c, id)'
                        /\ store' = store
            /\ ReleaseTask(id) => id \in tasks /\ id \notin tasks']_vars
    /\ \A id \in 1..MaxIds :
          [](id \in tasks => [](id \notin tasks => [](id \notin tasks)))

\* The guard of the second lock_id drawn has been dropped and its release task
\* is the only one pending, its records still in the store, with no record left
\* of the first lock_id.
C15_Witness ==
    \E c \in Callers :
        /\ Dropped(c, 2) /\ tasks = {2}
        /\ \E rec \in store : rec.lock_id = 2
        /\ Stale(1)
        /\ nextId = 3

\* The records under lock_id.
Records(S, lock_id) == {rec \in S : rec.lock_id = lock_id}

\* lock_id has records and no caller holds it any more: its guard was dropped,
\* or the reply that carried it was lost.
Orphaned(lock_id) ==
    /\ Records(store, lock_id) # {}
    /\ \A c \in Callers : grant[c].lock_id # lock_id

\* C16: a failed deferred release is swallowed and bounded by the TTL. When a
\* guard's release task runs with the store unreachable, no caller's position,
\* request, result or grant changes, the task is not run again, and the store
\* keeps every record, except that a command whose reply was lost has removed
\* the records of that lock_id. Records that no caller holds any more, whether
\* their release task failed, has not run or never runs, never have more than
\* the expiration left, lose a millisecond with every millisecond that passes
\* and are gone when none is left, so that nothing blocks their resources any
\* longer than the TTL; the only other step that changes them is their release
\* task, which removes them.
C16_FailedReleaseSwallowed ==
    [][\A id \in 1..MaxIds :
          /\ (~Reachable /\ ReleaseTask(id)) =>
                /\ UNCHANGED <<pc, req, result, grant>>
                /\ id \notin tasks'
                /\ \/ store' = store
                   \/ link = "down" /\ store' = store \ Records(store, id)
          /\ Orphaned(id) =>
                /\ \A rec \in Records(store, id) : \E e \in Expirations : rec.pttl \in 0..e
                /\ Records(store', id) =
                      IF store' = store THEN Records(store, id)
                      ELSE IF Tick
                      THEN {[rec EXCEPT !.pttl = @ - 1] :
                               rec \in {x \in Records(store, id) : x.pttl > 0}}
                      ELSE IF ReleaseTask(id) THEN {}
                      ELSE Records(store, id)]_vars

\* The release task of a dropped guard has run and failed: the link is down,
\* no task is pending, and the records of the guard's lock_id are still in
\* the store, with their full expiration left.
C16_Witness ==
    \E c \in Callers, id \in 1..MaxIds :
        /\ Dropped(c, id)
        /\ link = "down"
        /\ tasks = {}
        /\ Orphaned(id)
        /\ \A rec \in Records(store, id) : rec.pttl \in Expirations

\* What a turn of the loop that made an attempt for request q leaves: the
\* lock_id returned at once, or one poll interval of sleep with nothing
\* written, or the transport's error returned.
AttemptOutcome(c, q) ==
    \/ /\ pc'[c] = "idle"
       /\ result'[c].kind = "Some"
       /\ Records(store', result'[c].value) # {}
       /\ grant'[c].lock_id = result'[c].value
    \/ /\ pc'[c] = "sleep"
       /\ req'[c] = [q EXCEPT !.wait = q.sleep]
       /\ store' = store
       /\ grant'[c] = NoGrant
    \/ /\ pc'[c] = "idle"
       /\ result'[c].kind = "Err"
       /\ ~Reachable

\* C17: the steps of the polling loop. A turn that finds more than the timeout
\* elapsed makes no attempt and returns Ok(None); every other turn makes one
\* attempt, and either returns its lock_id at once, or sleeps one poll interval
\* and takes its next turn only when that sleep is over. A call whose resources
\* are free at its first attempt, with the store reachable, returns Some with
\* no time elapsed. Every call in its sleep returns in the end.
C17_PollingLoopSteps ==
    /\ [][\A c \in Callers :
            /\ \A o \in CallerOps(c) \cap Polling, rs \in ResourceLists,
                  e \in Expirations, t \in PromptTimeouts, s \in PromptSleeps :
                  Acquire(c, o, rs, e, t, s) =>
                      /\ AttemptOutcome(c, NewReq(o, rs, e, t, s))
                      /\ (Reachable /\ ~Blocked(rs)) => Granted(c, rs)
            /\ (pc[c] = "sleep" /\ (pc'[c] # "sleep" \/ req'[c].wait > req[c].wait)) =>
                  /\ req[c].wait = 0
                  /\ IF req[c].elapsed > req[c].timeout
                     THEN /\ pc'[c] = "idle"
                          /\ result'[c] = Res(req[c].op, "None", 0)
                          /\ UNCHANGED <<store, nextId, fcalls, grant>>
                     ELSE AttemptOutcome(c, req[c])]_vars
    /\ \A c \in Callers : pc[c] = "sleep" ~> pc[c] = "idle"

\* A call with a timeout and a poll interval of 1 ms, refused at its first
\* attempt, slept 1 ms, was refused again 1 ms after it began, and is at the
\* start of its second sleep.
C17_Witness ==
    \E c \in Callers :
        /\ pc[c] = "sleep"
        /\ req[c].timeout = 1 /\ req[c].sleep = 1
        /\ req[c].elapsed = 1 /\ req[c].wait = 1

\* Caller c's step is an attempt of its acquire / lock call that was refused:
\* the call enters its poll sleep, or starts it anew.
RefusedTurn(c) ==
    /\ pc'[c] = "sleep"
    /\ pc[c] # "sleep" \/ req'[c].wait > req[c].wait

\* C18: no hold-and-wait. A call of acquire / lock in its poll sleep holds no
\* grant. The attempt that sent it to sleep minted one lock_id, changed nothing
\* in the store and left no record under that lock_id; a call that returns
\* absent after its sleep changes nothing either; and no step ever writes a
\* record under a lock_id minted before it, so that no record of a lock_id
\* minted by a sleeping or timed-out call exists at any later time.
C18_NoHoldAndWait ==
    [][/\ \A c \in Callers :
            /\ pc[c] = "sleep" => grant[c] = NoGrant
            /\ RefusedTurn(c) =>
                  /\ nextId' = nextId + 1
                  /\ store' = store
                  /\ Records(store', Uuid_new_v4(nextId)) = {}
                  /\ grant'[c] = NoGrant
            /\ (pc[c] = "sleep" /\ pc'[c] = "idle" /\ result'[c].kind = "None") =>
                  /\ store' = store
                  /\ nextId' = nextId
                  /\ grant'[c] = NoGrant
       /\ \A id \in 1..nextId :
            (id < nextId /\ Records(store, id) = {}) => Records(store', id) = {}
       /\ Records(store, nextId) = {}]_vars

\* A call of acquire / lock has returned absent, its caller has minted the
\* second and the third lock_id, and every record in the store is under the
\* first, the lock_id of the other caller's live grant.
C18_Witness ==
    \E c, d \in Callers :
        /\ pc[c] = "idle" /\ result[c].op \in Polling /\ result[c].kind = "None"
        /\ grant[c] = NoGrant
        /\ Live(d) /\ grant[d].lock_id = 1
        /\ nextId = 4
        /\ store = Records(store, 1)

\* The lock_ids the state knows of: granted and still held, returned by a past
\* call, recorded in the store, or handed to a release task.
KnownIds ==
    {grant[c].lock_id : c \in {d \in Callers : grant[d] # NoGrant}}
        \cup {result[c].value : c \in {d \in Callers : result[d].kind = "Some"}}
        \cup {rec.lock_id : rec \in store}
        \cup tasks

\* C19: lock identities are fresh. Every attempt that is sent, the first of a
\* call and every retry of acquire / lock alike, mints one more lock_id; the
\* lock_id of a grant is none minted by an earlier attempt and none the state
\* knows of, and the records written by an attempt, acknowledged or not, are
\* under such a lock_id; no two callers have been granted the same lock_id.
C19_LockIdsFresh ==
    [][/\ fcalls' = fcalls + 1 =>
            /\ nextId' = nextId + 1
            /\ \A c \in Callers :
                  (result'[c] # result[c] /\ result'[c].kind = "Some") =>
                      /\ result'[c].value >= nextId
                      /\ result'[c].value \notin KnownIds
                      /\ grant'[c].lock_id = result'[c].value
            /\ \A rec \in store' \ store :
                  rec.lock_id >= nextId /\ rec.lock_id \notin KnownIds
       /\ \A c, d \in Callers :
            (c # d /\ result[c].kind = "Some" /\ result[d].kind = "Some") =>
                result[c].value # result[d].value]_vars

\* A caller was granted the first lock_id minted and the other one, by a call
\* of acquire / lock, the third: the second went to an attempt between them.
C19_Witness ==
    \E c, d \in Callers :
        /\ result[c].kind = "Some" /\ result[c].value = 1
        /\ result[d].kind = "Some" /\ result[d].value = 3
        /\ result[d].op \in Polling
        /\ nextId = 4

\* The records S after one more millisecond of the same expires_at.
Aged(S) == {[rec EXCEPT !.pttl = @ - 1] : rec \in {x \in S : x.pttl > 0}}

\* C20: lock records are never mutated. The records of a lock_id are one per
\* resource of its grant, all with the same time left, which is never more than
\* the expiration. In a step in which time passes they have a millisecond less
\* left, or are gone when none was left; in any other step they are what they
\* were, unless the step is a release of that lock_id, by its caller or by the
\* task of its dropped guard, which removes all of them. Nothing adds to them,
\* takes one of them away, or gives them more time.
C20_RecordsNeverMutated ==
    [][\A id \in 1..nextId :
          Records(store, id) # {} =>
              /\ \A x, y \in Records(store, id) :
                    /\ x.pttl = y.pttl
                    /\ \E e \in Expirations : x.pttl \in 0..e
                    /\ x.resource = y.resource => x = y
              /\ \A c \in Callers :
                    grant[c].lock_id = id =>
                        grant[c].resources = {x.resource : x \in Records(store, id)}
              /\ IF store' = store THEN TRUE
                 ELSE IF Tick THEN Records(store', id) = Aged(Records(store, id))
                 ELSE \/ Records(store', id) = Records(store, id)
                      \/ /\ Records(store', id) = {}
                         /\ ReleaseTask(id) \/ \E c \in Callers : Release(c, id)]_vars

\* A grant on account1 and account2 is in its last millisecond: both records
\* are there with nothing left, while the other caller, refused, sleeps between
\* two attempts on account2 and account3.
C20_Witness ==
    \E c, d \in Callers :
        /\ Live(c) /\ grant[c].left = 0
        /\ Records(store, grant[c].lock_id) =
              {[resource |-> r, lock_id |-> grant[c].lock_id, pttl |-> 0] :
                  r \in {"account1", "account2"}}
        /\ pc[d] = "sleep"
        /\ req[d].resources = <<"account2", "account3">>
        /\ req[d].elapsed > 0

\* Caller c's step is a call of try_acquire, try_lock, acquire or lock with the
\* resource list rs and the expiration e.
Calls(c, rs, e) ==
    \/ \E o \in CallerOps(c) \ Polling : TryAcquire(c, o, rs, e)
    \/ \E o \in CallerOps(c) \cap Polling, t \in Timeouts, s \in Sleeps :
          Acquire(c, o, rs, e, t, s)

\* C10: invalid input is rejected before any store round trip. A call with an
\* empty resource list, or with an expiration of zero, sends no FCALL
\* acquire_lock, leaves the store as it is and grants nothing.
C10_InvalidInputRejected ==
    [][\A c \in Callers, rs \in AnyResourceLists, e \in AnyExpirations :
          ((rs = <<>> \/ e <= 0) /\ Calls(c, rs, e)) =>
              /\ fcalls' = fcalls
              /\ store' = store
              /\ result'[c].kind # "Some"]_vars
====
